---- MODULE Spec2Model ----
(***************************************************************************)
(* High-level correction generator (high_level_correction_generator.py):   *)
(* the episode pipeline (media loader, prompt builder, structured          *)
(* inference client, episode processor) and the batch driver that writes   *)
(* one JSON file per derived episode id.                                   *)
(*                                                                         *)
(* Conventions of the model                                                *)
(*   - a Python Optional / a dict key that may be absent is a sequence of  *)
(*     length 0 (None, absent) or 1 (the value);                           *)
(*   - a Python str that the code inspects character by character          *)
(*     (failure_subtask, the video path) is a sequence of character        *)
(*     tokens; every other str is a TLA+ string;                           *)
(*   - a Python dict that is built and serialised (the Output Record) is   *)
(*     the sequence of its <<key, value>> items in insertion order;        *)
(*   - a function that may raise returns [exc |-> BOOLEAN, val |-> ...].   *)
(***************************************************************************)
EXTENDS Integers, Sequences, FiniteSets, TLC

VARIABLES
    episodes,               \* the annotation file: json.load(f), a list of Episode Records
    skip_existing_results,  \* PROCESSING_CONFIG["skip_existing_results"]
    files,                  \* output/<task_name>/: file name -> text written so far
    run,                    \* which invocation of process_annotation_file this is
    pc,                     \* position inside process_annotation_file
    i,                      \* enumerate(episodes) cursor, 1-based
    interrupted,            \* the process was interrupted from outside
    given,                  \* episode_id argument of the last process_single_episode call
    result,                 \* the dict returned by the last process_single_episode call
    loads,                  \* image paths _load_image was called with during that call
    calls,                  \* requests sent to client.models.generate_content during that call
    answer,                 \* what the boundary answered during that call (<<>>: not invoked)
    produced,               \* this run's returned records, in episode order
    answers,                \* first run: the boundary's answer per episode
    same,                   \* later runs: the boundary answered as in the first run so far
    firstRun,               \* the output directory as the first run left it
    failure_subtask,        \* prompt builder study: episode_data['failure_subtask']
    subtasks,               \* prompt builder study: episode_data['subtasks']
    prompt                  \* prompt builder study: outcome of _create_analysis_prompt

vars == <<episodes, skip_existing_results, files, run, pc, i, interrupted, given, result,
          loads, calls, answer, produced, answers, same, firstRun,
          failure_subtask, subtasks, prompt>>

promptVars == <<failure_subtask, subtasks, prompt>>

(***************************************************************************)
(* Bounds of the model.                                                    *)
(***************************************************************************)
MaxEpisodes == 2    \* episodes per annotation file
MaxRuns == 2        \* invocations of process_annotation_file on the same file
MaxImages == 2      \* image references per episode
MaxStrLen == 2      \* characters of failure_subtask in the prompt builder study
MaxSubtasks == 2    \* subtasks per episode in the prompt builder study

None == <<>>
Some(x) == <<x>>

\* dict.get(key, default) on a key that may be absent
get(field, default) == IF field = None THEN default ELSE field[1]

RECURSIVE SeqsUpTo(_, _)
\* all sequences over S of length at most n
SeqsUpTo(S, n) ==
    IF n = 0 THEN {<<>>}
    ELSE LET shorter == SeqsUpTo(S, n - 1)
         IN  shorter \cup {Append(s, x) : s \in {t \in shorter : Len(t) = n - 1}, x \in S}

(***************************************************************************)
(* Python str.isdigit() and int(): characters.                             *)
(*   DecimalChars : Unicode decimal digits (Nd); int() accepts them.       *)
(*   "sup2"       : U+00B2 SUPERSCRIPT TWO, Numeric_Type=Digit: isdigit()  *)
(*                  is True for it, int() raises ValueError on it.         *)
(*   "-", "x"     : a sign and a letter: isdigit() is False.               *)
(***************************************************************************)
DecimalChars == {"0", "1", "2", "3", "7", "9"}
DigitChars == DecimalChars \cup {"sup2"}
Chars == DigitChars \cup {"-", "x"}

DigitValue(c) ==
    CASE c = "0" -> 0 [] c = "1" -> 1 [] c = "2" -> 2 [] c = "3" -> 3 [] c = "7" -> 7
      [] c = "9" -> 9

\* str.isdigit(): non-empty and every character is a digit character
isdigit(s) == Len(s) > 0 /\ \A k \in 1..Len(s) : s[k] \in DigitChars

RECURSIVE DecimalValue(_)
DecimalValue(s) ==
    IF s = <<>> THEN 0
    ELSE 10 * DecimalValue(SubSeq(s, 1, Len(s) - 1)) + DigitValue(s[Len(s)])

\* int(s): an optional sign followed by decimal digits, ValueError otherwise
int(s) ==
    LET neg    == Len(s) > 0 /\ s[1] = "-"
        digits == IF neg THEN Tail(s) ELSE s
    IN  IF Len(digits) > 0 /\ \A k \in 1..Len(digits) : digits[k] \in DecimalChars
        THEN [exc |-> FALSE, val |-> IF neg THEN 0 - DecimalValue(digits) ELSE DecimalValue(digits)]
        ELSE [exc |-> TRUE, val |-> 0]

(***************************************************************************)
(* Prompt Builder: _create_analysis_prompt.                                *)
(***************************************************************************)
\* lines 103-107: the failed subtask's description; raises when int() raises
failed_subtask_description(fs, subs) ==
    IF isdigit(fs)
    THEN LET n == int(fs)
         IN  IF n.exc THEN [exc |-> TRUE, val |-> "Unknown"]
             ELSE LET subtask_idx == n.val - 1
                  IN  IF 0 <= subtask_idx /\ subtask_idx < Len(subs)
                      THEN [exc |-> FALSE, val |-> subs[subtask_idx + 1]]
                      ELSE [exc |-> FALSE, val |-> "Unknown"]
    ELSE [exc |-> FALSE, val |-> "Unknown"]

\* lines 110-117: PROMPT_CONFIG[...].format(...): the template with its six fields filled in
format(task, fs, description, failure_type, low_level_avoidance, low_level_correction) ==
    [task |-> task, failure_subtask |-> fs, failed_subtask_description |-> description,
     failure_type |-> failure_type, low_level_correction |-> low_level_correction,
     low_level_avoidance |-> low_level_avoidance]

_create_analysis_prompt(episode_data) ==
    LET d == failed_subtask_description(episode_data.failure_subtask, episode_data.subtasks)
    IN  IF d.exc THEN [exc |-> TRUE, val |-> None]
        ELSE [exc |-> FALSE,
              val |-> Some(format(episode_data.task, episode_data.failure_subtask, d.val,
                                  episode_data.failure_type,
                                  episode_data.avoidance[1].low_level,
                                  episode_data.correction[1].low_level))]

(***************************************************************************)
(* Episode identifier: _extract_episode_id.                                *)
(* A video path is a sequence of tokens; the tokens "episode_" and         *)
(* "_cam_high.mp4" are the literal parts of the pattern                    *)
(* r'episode_(\d+)_cam_high\.mp4', a decimal character is what \d matches. *)
(***************************************************************************)
\* re.search: the leftmost match's group(1), None when nothing matches
re_search(path) ==
    LET matchAt(a, b) ==
            /\ path[a] = "episode_"
            /\ b > a + 1
            /\ \A k \in (a + 1)..(b - 1) : path[k] \in DecimalChars
            /\ path[b] = "_cam_high.mp4"
        starts == {a \in 1..Len(path) : \E b \in 1..Len(path) : matchAt(a, b)}
    IN  IF starts = {} THEN None
        ELSE LET a == CHOOSE x \in starts : \A y \in starts : x <= y
                 b == CHOOSE y \in 1..Len(path) : matchAt(a, y)
             IN  Some(SubSeq(path, a + 1, b - 1))

_extract_episode_id(episode_data) ==
    LET video_path == get(episode_data.video, <<>>)
        match      == IF video_path # <<>> THEN re_search(video_path) ELSE None
    IN  IF match # None THEN int(match[1]).val ELSE 0

(***************************************************************************)
(* Media Loader: _load_image, _load_all_episode_images.                    *)
(* DataFiles are the image files present under data/; an image object is   *)
(* identified with the path it was opened from.                            *)
(***************************************************************************)
ImagePaths == {"f1.png", "f2.png", "gone.png"}
DataFiles == {"f1.png", "f2.png"}

_load_image(image_path) ==
    IF image_path \notin DataFiles THEN [exc |-> TRUE, val |-> None]
    ELSE [exc |-> FALSE, val |-> Some(image_path)]

\* variant: the append sits outside the try, so a missing path stays in the list
_load_all_keeps_missing(episode_images) == episode_images

RECURSIVE _load_all_episode_images(_)
\* the for loop of lines 85-91 over a list of image paths
_load_all_episode_images(episode_images) ==
    IF episode_images = <<>> THEN <<>>
    ELSE LET rest == _load_all_episode_images(SubSeq(episode_images, 1, Len(episode_images) - 1))
             img  == _load_image(episode_images[Len(episode_images)])
         IN  IF img.exc THEN rest ELSE Append(rest, img.val[1])

(***************************************************************************)
(* Structured Inference Client: _call_gemini_api.                          *)
(* A response of the boundary either raises or carries response.parsed     *)
(* (None, or a HighLevelAnalysis).                                         *)
(***************************************************************************)
Analyses ==
    {[reasoning |-> "R", avoidance_high_level |-> "A", correction_high_level |-> "C"],
     [reasoning |-> "", avoidance_high_level |-> "", correction_high_level |-> ""]}

Responses ==
    {[exc |-> TRUE, parsed |-> None], [exc |-> FALSE, parsed |-> None]}
      \cup {[exc |-> FALSE, parsed |-> Some(a)] : a \in Analyses}

\* batch study: the boundary raises, yields no parsed object, or yields one analysis
BatchResponses ==
    {r \in Responses : r.parsed = None \/ r.parsed[1].reasoning # ""}

\* lines 124-125: contents = [images]; contents.extend([prompt])
request(prompt_text, images) ==
    [model |-> "gemini-2.5-pro", contents |-> <<images, prompt_text>>]

\* variant: the return of response.parsed is missing
_call_gemini_api_drops_parsed(prompt_text, images, response) == None

\* variant: the except branch returns a default analysis instead of None
_call_gemini_api_default_on_error(prompt_text, images, response) ==
    IF response.exc
    THEN Some([reasoning |-> "", avoidance_high_level |-> "", correction_high_level |-> ""])
    ELSE response.parsed

\* lines 122-143: the parsed object, None on any exception
_call_gemini_api(prompt_text, images, response) ==
    IF response.exc THEN None ELSE response.parsed

\* HighLevelAnalysis.model_dump(): the fields in declaration order (lines 31-33)
model_dump(analysis) ==
    <<<<"reasoning", analysis.reasoning>>,
      <<"avoidance_high_level", analysis.avoidance_high_level>>,
      <<"correction_high_level", analysis.correction_high_level>>>>

(***************************************************************************)
(* Episode Processor: generate_high_level_analysis, process_single_episode *)
(***************************************************************************)
\* lines 152-180; val: the analysis or None, loads / calls: what the call touched
generate_high_level_analysis(episode_data, response) ==
    LET episode_images == get(episode_data.images, <<>>)
        images == _load_all_episode_images(episode_images)
        p      == _create_analysis_prompt(episode_data)
    IN  IF images = <<>>
        THEN [exc |-> FALSE, val |-> None, loads |-> episode_images, calls |-> <<>>,
              answer |-> None]
        ELSE IF p.exc
        THEN [exc |-> FALSE, val |-> None, loads |-> episode_images, calls |-> <<>>,
              answer |-> None]
        ELSE [exc |-> FALSE, val |-> _call_gemini_api(p.val[1], images, response),
              loads |-> episode_images, calls |-> <<request(p.val[1], images)>>,
              answer |-> Some(response)]

RECURSIVE update(_, _)
\* dict.update: a present key keeps its place and takes the new value, a new key is appended
update(d, items) ==
    IF items = <<>> THEN d
    ELSE LET kv == Head(items)
             at == {k \in 1..Len(d) : d[k][1] = kv[1]}
             d2 == IF at = {} THEN Append(d, kv)
                   ELSE [k \in 1..Len(d) |-> IF k \in at THEN kv ELSE d[k]]
         IN  update(d2, Tail(items))

\* f"episode_{episode_id}"
episode_name(episode_id) == "episode_" \o ToString(episode_id)

\* lines 189-194: the metadata-only record (.get on keys every Episode Record carries)
metadata(episode_data, episode_id) ==
    <<<<"episode_id", episode_name(episode_id)>>,
      <<"task", episode_data.task>>,
      <<"failure_type", episode_data.failure_type>>,
      <<"failure_subtask", episode_data.failure_subtask>>>>

\* variant: the test is failure_detection != 'no', so a record without the flag is analysed
process_single_episode_unless_no(episode_data, episode_id, response) ==
    LET id == IF episode_id = None THEN _extract_episode_id(episode_data) ELSE episode_id[1]
        base == metadata(episode_data, id)
    IN  IF get(episode_data.failure_detection, "") # "no"
        THEN LET high_level_analysis == generate_high_level_analysis(episode_data, response)
             IN  [exc |-> high_level_analysis.exc,
                  val |-> IF high_level_analysis.val # None
                          THEN update(base, model_dump(high_level_analysis.val[1]))
                          ELSE base,
                  loads |-> high_level_analysis.loads,
                  calls |-> high_level_analysis.calls,
                  answer |-> high_level_analysis.answer]
        ELSE [exc |-> FALSE,
              val |-> update(base, <<<<"avoidance_high_level", "">>,
                                     <<"correction_high_level", "">>,
                                     <<"reasoning", "">>>>),
              loads |-> <<>>, calls |-> <<>>, answer |-> None]

\* lines 182-211; episode_id: None or the caller's value
process_single_episode(episode_data, episode_id, response) ==
    LET id == IF episode_id = None THEN _extract_episode_id(episode_data) ELSE episode_id[1]
        base == metadata(episode_data, id)
    IN  IF get(episode_data.failure_detection, "") = "yes"
        THEN LET high_level_analysis == generate_high_level_analysis(episode_data, response)
             IN  [exc |-> high_level_analysis.exc,
                  val |-> IF high_level_analysis.val # None
                          THEN update(base, model_dump(high_level_analysis.val[1]))
                          ELSE base,
                  loads |-> high_level_analysis.loads,
                  calls |-> high_level_analysis.calls,
                  answer |-> high_level_analysis.answer]
        ELSE [exc |-> FALSE,
              val |-> update(base, <<<<"avoidance_high_level", "">>,
                                     <<"correction_high_level", "">>,
                                     <<"reasoning", "">>>>),
              loads |-> <<>>, calls |-> <<>>, answer |-> None]

(***************************************************************************)
(* Output files: open(..., 'w'), json.dump, close.                         *)
(* The text of a file is a sequence of chunks: an opening brace, one chunk *)
(* per item of the dict in its order, a closing brace.                     *)
(***************************************************************************)
\* variant: the file name carries the invocation it was written in
episode_output_file_stamped(episode_id) ==
    episode_name(episode_id) \o "_" \o ToString(run) \o "_high_level.json"

\* f"episode_{episode_id}_high_level.json"
episode_output_file(episode_id) == episode_name(episode_id) \o "_high_level.json"

\* json.dump(result, f, ensure_ascii=False, indent=4): the chunks handed to f.write
json_dump(d) == <<<<"{", "">>>> \o d \o <<<<"}", "">>>>

\* variant: open(name, 'a'), an existing file keeps its text
open_a(fs, name) == [n \in DOMAIN fs \cup {name} |-> IF n \in DOMAIN fs THEN fs[n] ELSE <<>>]

\* open(name, 'w'): the file exists and is empty
open_w(fs, name) == [n \in DOMAIN fs \cup {name} |-> IF n = name THEN <<>> ELSE fs[n]]

\* variant: the file is never closed, the last buffered chunk does not reach it
write_drops_last(fs, name, chunks) ==
    [fs EXCEPT ![name] = @ \o SubSeq(chunks, 1, Len(chunks) - 1)]

\* f.write of some chunks to the open file, in order
write(fs, name, chunks) == [fs EXCEPT ![name] = @ \o chunks]

(***************************************************************************)
(* The Episode Records the specifications draw their inputs from.          *)
(***************************************************************************)
V_7 == <<"task/videos/", "episode_", "7", "_cam_high.mp4">>
V_12 == <<"task/videos/", "episode_", "1", "2", "_cam_high.mp4">>
V_0 == <<"task/videos/", "episode_", "0", "_cam_high.mp4">>
V_low == <<"task/videos/", "episode_", "7", "_cam_low.mp4">>
V_nodigit == <<"task/videos/", "episode_", "_cam_high.mp4">>

EpisodeRecords(detections, videos, imageLists, failureSubtasks) ==
    [failure_detection : detections, video : videos, images : imageLists,
     failure_subtask : failureSubtasks,
     task : {"fold towel"}, failure_type : {"grasp"},
     subtasks : {<<"reach", "grasp">>},
     avoidance : {<<[low_level |-> "move left"]>>},
     correction : {<<[low_level |-> "open gripper"]>>}]

\* single-episode study: every shape of record
AllEpisodes ==
    EpisodeRecords({None, Some("yes"), Some("no")},
                   {None, Some(<<>>), Some(V_7), Some(V_12), Some(V_0), Some(V_low),
                    Some(V_nodigit)},
                   {None} \cup {Some(l) : l \in SeqsUpTo(ImagePaths, MaxImages)},
                   {<<"1">>, <<"2">>, <<"9">>, <<"sup2">>, <<"x">>})

\* batch study: non-failure episodes, failure episodes with and without a loadable image;
\* two episodes without a video path, or with the same one, derive the same id
BatchEpisodes ==
    EpisodeRecords({Some("no")}, {None, Some(V_7)}, {Some(<<"f1.png">>)}, {<<"1">>})
      \cup EpisodeRecords({Some("yes")}, {None, Some(V_7)},
                          {Some(<<"gone.png">>), Some(<<"f1.png">>)}, {<<"1">>})

(***************************************************************************)
(* Batch Driver: process_annotation_file, one action per step of its loop. *)
(***************************************************************************)
\* nothing has run yet
Idle ==
    /\ skip_existing_results \in BOOLEAN
    /\ files = <<>>
    /\ run = 1
    /\ i = 1
    /\ interrupted = FALSE
    /\ given = None
    /\ result = <<>>
    /\ loads = <<>>
    /\ calls = <<>>
    /\ answer = None
    /\ produced = <<>>
    /\ answers = <<>>
    /\ same = TRUE
    /\ firstRun = <<>>

Init ==
    /\ episodes \in SeqsUpTo(BatchEpisodes, MaxEpisodes)
    /\ pc = "start"
    /\ Idle
    /\ failure_subtask = <<>>
    /\ subtasks = <<>>
    /\ prompt = None

\* lines 213-230: read the annotation file, make the task directory
Start ==
    /\ ~interrupted
    /\ pc = "start"
    /\ i' = 1
    /\ produced' = <<>>
    /\ pc' = IF episodes = <<>> THEN "done" ELSE "process"
    /\ UNCHANGED <<episodes, skip_existing_results, files, run, interrupted, given, result,
                   loads, calls, answer, answers, same, firstRun>>
    /\ UNCHANGED promptVars

\* lines 232-239: derive the id and run the Episode Processor; an exception would leave
\* the loop
ProcessEpisode ==
    /\ ~interrupted
    /\ pc = "process"
    /\ \E response \in BatchResponses :
         LET episode_data == episodes[i]
             episode_id   == _extract_episode_id(episode_data)
             r            == process_single_episode(episode_data, Some(episode_id), response)
         IN  /\ given' = Some(episode_id)
             /\ result' = r.val
             /\ loads' = r.loads
             /\ calls' = r.calls
             /\ answer' = r.answer
             /\ pc' = IF r.exc THEN "crashed" ELSE "open"
             /\ answers' = IF run = 1 THEN Append(answers, r.answer) ELSE answers
             /\ same' = IF run = 1 THEN same ELSE same /\ r.answer = answers[i]
    /\ UNCHANGED <<episodes, skip_existing_results, files, run, i, interrupted, produced,
                   firstRun>>
    /\ UNCHANGED promptVars

\* lines 241-242: open(episode_output_file, 'w')
OpenOutput ==
    /\ ~interrupted
    /\ pc = "open"
    /\ files' = open_w(files, episode_output_file(given[1]))
    /\ pc' = "dump"
    /\ UNCHANGED <<episodes, skip_existing_results, run, i, interrupted, given, result,
                   loads, calls, answer, produced, answers, same, firstRun>>
    /\ UNCHANGED promptVars

\* lines 243-249: json.dump, close, sleep, next episode
Dump ==
    /\ ~interrupted
    /\ pc = "dump"
    /\ files' = write(files, episode_output_file(given[1]), json_dump(result))
    /\ produced' = Append(produced, [name |-> episode_output_file(given[1]), rec |-> result,
                                     answer |-> answer])
    /\ i' = i + 1
    /\ pc' = IF i = Len(episodes) THEN "done" ELSE "process"
    /\ UNCHANGED <<episodes, skip_existing_results, run, interrupted, given, result,
                   loads, calls, answer, answers, same, firstRun>>
    /\ UNCHANGED promptVars

\* process_annotation_file is called again on the same annotation file
Rerun ==
    /\ ~interrupted
    /\ pc = "done"
    /\ run < MaxRuns
    /\ run' = run + 1
    /\ firstRun' = IF run = 1 THEN files ELSE firstRun
    /\ pc' = "start"
    /\ UNCHANGED <<episodes, skip_existing_results, files, i, interrupted, given, result,
                   loads, calls, answer, produced, answers, same>>
    /\ UNCHANGED promptVars

\* the process is interrupted from outside; inside json.dump some of the chunks have
\* reached the file
Interrupt ==
    /\ ~interrupted
    /\ pc \in {"process", "open", "dump"}
    /\ interrupted' = TRUE
    /\ IF pc = "dump"
       THEN \E k \in 0..Len(json_dump(result)) :
              files' = write(files, episode_output_file(given[1]),
                             SubSeq(json_dump(result), 1, k))
       ELSE files' = files
    /\ UNCHANGED <<episodes, skip_existing_results, run, pc, i, given, result,
                   loads, calls, answer, produced, answers, same, firstRun>>
    /\ UNCHANGED promptVars

Next == Start \/ ProcessEpisode \/ OpenOutput \/ Dump \/ Rerun \/ Interrupt

Spec == Init /\ [][Next]_vars

(***************************************************************************)
(* Single-episode study: one call of process_single_episode, as            *)
(* quick_test.py makes it (no episode_id) and main() does (an index).      *)
(***************************************************************************)
InitEpisode ==
    /\ episodes \in {<<e>> : e \in AllEpisodes}
    /\ pc = "call"
    /\ Idle
    /\ failure_subtask = <<>>
    /\ subtasks = <<>>
    /\ prompt = None

CallEpisode ==
    /\ pc = "call"
    /\ \E episode_id \in {None, Some(0), Some(3)}, response \in Responses :
         LET r == process_single_episode(episodes[1], episode_id, response)
         IN  /\ given' = episode_id
             /\ result' = r.val
             /\ loads' = r.loads
             /\ calls' = r.calls
             /\ answer' = r.answer
             /\ pc' = IF r.exc THEN "crashed" ELSE "returned"
    /\ UNCHANGED <<episodes, skip_existing_results, files, run, i, interrupted, produced,
                   answers, same, firstRun>>
    /\ UNCHANGED promptVars

NextEpisode == CallEpisode

SpecEpisode == InitEpisode /\ [][NextEpisode]_vars

(***************************************************************************)
(* Prompt builder study: _create_analysis_prompt on one record.            *)
(***************************************************************************)
SubtaskNames == {"reach", "grasp", "lift"}

InitPrompt ==
    /\ failure_subtask \in SeqsUpTo(Chars, MaxStrLen)
    /\ subtasks \in SeqsUpTo(SubtaskNames, MaxSubtasks)
    /\ prompt = None
    /\ episodes = <<>>
    /\ pc = "build"
    /\ Idle
    /\ skip_existing_results = FALSE

BuildPrompt ==
    /\ pc = "build"
    /\ prompt' = Some(_create_analysis_prompt(
                        [failure_subtask |-> failure_subtask, subtasks |-> subtasks,
                         task |-> "fold towel", failure_type |-> "grasp",
                         avoidance |-> <<[low_level |-> "move left"]>>,
                         correction |-> <<[low_level |-> "open gripper"]>>]))
    /\ pc' = "built"
    /\ UNCHANGED <<failure_subtask, subtasks>>
    /\ UNCHANGED <<episodes, skip_existing_results, files, run, i, interrupted, given,
                   result, loads, calls, answer, produced, answers, same, firstRun>>

NextPrompt == BuildPrompt

SpecPrompt == InitPrompt /\ [][NextPrompt]_vars

(***************************************************************************)
(* Properties.                                                             *)
(***************************************************************************)
\* d.get(key): Some(value), or None when the dict has no such key
lookup(d, key) ==
    LET at == {k \in 1..Len(d) : d[k][1] = key}
    IN  IF at = {} THEN None ELSE Some(d[CHOOSE k \in at : TRUE][2])

keys(d) == {d[k][1] : k \in 1..Len(d)}

MetadataKeys == {"episode_id", "task", "failure_type", "failure_subtask"}
AnalysisKeys == {"reasoning", "avoidance_high_level", "correction_high_level"}

\* a complete JSON object: what json.load accepts
is_json(text) ==
    /\ Len(text) >= 2
    /\ text[1] = <<"{", "">>
    /\ text[Len(text)] = <<"}", "">>
    /\ \A k \in 2..(Len(text) - 1) : text[k][1] \notin {"{", "}"}

\* json.load of a complete file: the dict's items
json_load(text) == SubSeq(text, 2, Len(text) - 1)

IsPrefix(s, t) == Len(s) <= Len(t) /\ SubSeq(t, 1, Len(s)) = s

IsOnDisk(image_path) == image_path \in DataFiles

\* the image references of a record, and those of them that can be loaded
References(e) == get(e.images, <<>>)
Loadable(e) == SelectSeq(References(e), IsOnDisk)

IsFailure(e) == e.failure_detection = Some("yes")

\* the id process_single_episode was to use in the last call
ResolvedId(e) == IF given = None THEN _extract_episode_id(e) ELSE given[1]

EchoesMetadata(e) ==
    /\ lookup(result, "episode_id") = Some(episode_name(ResolvedId(e)))
    /\ lookup(result, "task") = Some(e.task)
    /\ lookup(result, "failure_type") = Some(e.failure_type)
    /\ lookup(result, "failure_subtask") = Some(e.failure_subtask)

MetadataOnly(d) == Len(d) = 4 /\ keys(d) = MetadataKeys

\* the boundary was invoked and raised, or yielded no parsed object
BoundaryFailed(a) == a # None /\ (a[1].exc \/ a[1].parsed = None)
BoundarySucceeded(a) == a # None /\ ~a[1].exc /\ a[1].parsed # None

\* C1: a record whose failure_detection is not "yes" (absent included) comes back with
\* reasoning, avoidance_high_level and correction_high_level all "", and during the call
\* no image is loaded and the inference boundary is not invoked.
C1_NonFailureSkipsInference ==
    (pc = "returned" /\ ~IsFailure(episodes[1])) =>
        /\ lookup(result, "reasoning") = Some("")
        /\ lookup(result, "avoidance_high_level") = Some("")
        /\ lookup(result, "correction_high_level") = Some("")
        /\ loads = <<>>
        /\ calls = <<>>

C1_Witness ==
    /\ pc = "returned"
    /\ episodes[1].failure_detection = None
    /\ Loadable(episodes[1]) # <<>>
    /\ lookup(result, "reasoning") = Some("")
    /\ calls = <<>>

\* C2: for a failure record with a loadable image and a successful boundary response, the
\* returned record carries exactly the three fields the boundary returned, next to the
\* unchanged episode_id, task, failure_type and failure_subtask.
C2_AnalysisEqualsBoundaryFields ==
    (/\ pc = "returned"
     /\ IsFailure(episodes[1])
     /\ Loadable(episodes[1]) # <<>>
     /\ BoundarySucceeded(answer)) =>
        /\ lookup(result, "reasoning") = Some(answer[1].parsed[1].reasoning)
        /\ lookup(result, "avoidance_high_level") = Some(answer[1].parsed[1].avoidance_high_level)
        /\ lookup(result, "correction_high_level") = Some(answer[1].parsed[1].correction_high_level)
        /\ EchoesMetadata(episodes[1])
        /\ Len(result) = 7
        /\ keys(result) = MetadataKeys \cup AnalysisKeys

C2_Witness ==
    /\ pc = "returned"
    /\ IsFailure(episodes[1])
    /\ given = None
    /\ episodes[1].video = Some(V_12)
    /\ BoundarySucceeded(answer)
    /\ lookup(result, "reasoning") = Some("R")
    /\ lookup(result, "episode_id") = Some("episode_12")

\* C3: for a failure record whose image references resolve to no loadable image (an empty
\* list, or every file missing) the returned record is metadata-only and the inference
\* boundary is not invoked.
C3_NoImagesNoInference ==
    (pc = "returned" /\ IsFailure(episodes[1]) /\ Loadable(episodes[1]) = <<>>) =>
        /\ MetadataOnly(result)
        /\ EchoesMetadata(episodes[1])
        /\ calls = <<>>
        /\ answer = None

C3_Witness ==
    /\ pc = "returned"
    /\ IsFailure(episodes[1])
    /\ Len(References(episodes[1])) = 2
    /\ Loadable(episodes[1]) = <<>>
    /\ loads = References(episodes[1])
    /\ MetadataOnly(result)

\* C10 (as claimed): for a failure record with some image references missing and at least
\* one loadable, the inference boundary is invoked once, with exactly the loadable images
\* in their original order followed by the prompt.
C10_MissingImageNeverFailsEpisode ==
    (/\ pc = "returned"
     /\ IsFailure(episodes[1])
     /\ Loadable(episodes[1]) # <<>>
     /\ Len(Loadable(episodes[1])) < Len(References(episodes[1]))) =>
        /\ Len(calls) = 1
        /\ Len(calls[1].contents) = 2
        /\ calls[1].contents[1] = Loadable(episodes[1])
        /\ calls[1].contents[2].task = episodes[1].task

\* a decimal string: one or more of the characters 0-9
IsDecimalString(s) == Len(s) > 0 /\ \A k \in 1..Len(s) : s[k] \in DecimalChars

\* C9 (as claimed): failure_subtask is a 1-indexed position in subtasks: a decimal string k
\* with 1 <= k <= len(subtasks) resolves to subtasks[k-1], every other value resolves to
\* "Unknown", and prompt construction succeeds in either case.
C9_SubtaskLookup ==
    pc = "built" =>
        /\ ~prompt[1].exc
        /\ prompt[1].val[1].failed_subtask_description =
             IF /\ IsDecimalString(failure_subtask)
                /\ 1 <= DecimalValue(failure_subtask)
                /\ DecimalValue(failure_subtask) <= Len(subtasks)
             THEN subtasks[DecimalValue(failure_subtask)]
             ELSE "Unknown"

\* the last record this run has persisted
LastProduced == produced[Len(produced)]

\* C4: when the boundary fails for an episode, its record is metadata-only, no exception
\* leaves process_annotation_file, the record is written to its file, and the loop goes
\* on through every remaining episode.
C4_BoundaryFailureAbsorbed ==
    /\ pc # "crashed"
    /\ (pc \in {"open", "dump"} /\ BoundaryFailed(answer)) =>
          MetadataOnly(result) /\ EchoesMetadata(episodes[i])
    /\ \A k \in 1..Len(produced) :
          BoundaryFailed(produced[k].answer) => MetadataOnly(produced[k].rec)
    /\ (pc \in {"process", "done"} /\ produced # <<>>) =>
          /\ LastProduced.name \in DOMAIN files
          /\ files[LastProduced.name] = json_dump(LastProduced.rec)
    /\ pc = "done" => Len(produced) = Len(episodes)

C4_Witness ==
    /\ pc = "done"
    /\ Len(produced) = 2
    /\ BoundaryFailed(produced[1].answer)
    /\ produced[1].answer[1].exc
    /\ BoundarySucceeded(produced[2].answer)
    /\ files[produced[2].name] = json_dump(produced[2].rec)

\* the index of the last episode of this run written to the file called name
LastWriter(name) ==
    CHOOSE k \in 1..Len(produced) :
        /\ produced[k].name = name
        /\ \A m \in 1..Len(produced) : produced[m].name = name => m <= k

\* C5 (as claimed): after a complete run the output directory holds one file per episode,
\* each containing that episode's record, also when video paths yield the same id or none.
C5_OneFilePerEpisode ==
    pc = "done" =>
        /\ Cardinality(DOMAIN files) = Len(episodes)
        /\ \A k \in 1..Len(produced) : files[produced[k].name] = json_dump(produced[k].rec)

\* C5 (amended): after a complete run every episode's record has been written to the file
\* named by its derived id, and the directory holds one complete file per distinct derived
\* id, containing the record of the last episode with that id.
C5_OneFilePerDerivedId ==
    pc = "done" =>
        /\ Len(produced) = Len(episodes)
        /\ \A k \in 1..Len(produced) :
              produced[k].name = episode_output_file(_extract_episode_id(episodes[k]))
        /\ DOMAIN files = {produced[k].name : k \in 1..Len(produced)}
        /\ \A n \in DOMAIN files :
              /\ is_json(files[n])
              /\ json_load(files[n]) = produced[LastWriter(n)].rec

C5_Witness ==
    /\ pc = "done"
    /\ run = 1
    /\ Len(produced) = 2
    /\ produced[1].name = produced[2].name
    /\ produced[1].rec # produced[2].rec
    /\ Cardinality(DOMAIN files) = 1
    /\ json_load(files[produced[2].name]) = produced[2].rec

\* C6 (as claimed): with skip_existing_results enabled, an episode whose output file
\* already exists is skipped before any work: no image is loaded, the boundary is not
\* invoked, and the existing file is left unchanged.
C6_SkipExistingHonoured ==
    [][LET exists ==
               episode_output_file(_extract_episode_id(episodes[i])) \in DOMAIN files
       IN  /\ (skip_existing_results /\ pc = "process" /\ pc' = "open" /\ exists) =>
                  (loads' = <<>> /\ calls' = <<>>)
           /\ (skip_existing_results /\ pc = "open" /\ pc' = "dump" /\ exists) =>
                  files' = files]_vars

\* C7 (as claimed): whenever the run is interrupted, every output file on disk is a
\* complete record (the previous one or the new one): none is empty or half-written.
C7_NoPartialFile ==
    interrupted => \A n \in DOMAIN files : is_json(files[n])

\* C7 (amended): every output file is a complete record, except the file of the episode
\* being persisted: between its open and its close that file holds a prefix, possibly
\* empty, of the new record.
C7_OnlyOpenFilePartial ==
    \A n \in DOMAIN files :
        \/ is_json(files[n])
        \/ /\ pc = "dump"
           /\ n = episode_output_file(given[1])
           /\ IsPrefix(files[n], json_dump(result))

C7_Witness ==
    /\ interrupted
    /\ pc = "dump"
    /\ run = 2
    /\ ~is_json(files[episode_output_file(given[1])])
    /\ files[episode_output_file(given[1])] # <<>>
    /\ firstRun[episode_output_file(given[1])] # <<>>

\* C8: a second run over the same annotation file, with the same images on disk and a
\* boundary that answers as in the first run, leaves the same files with the same text.
C8_SecondRunIdempotent ==
    (pc = "done" /\ run >= 2 /\ same) => files = firstRun

C8_Witness ==
    /\ pc = "done"
    /\ run = 2
    /\ same
    /\ Len(produced) = 2
    /\ BoundarySucceeded(produced[1].answer)
    /\ BoundaryFailed(produced[2].answer)
    /\ files = firstRun

====
